---- MODULE Spec2Model ----
(***************************************************************************)
(* mok: a small HTTP server for JSON files.  The model covers startup      *)
(* (flag parsing, direct input, argument resolution, handler registration, *)
(* listen) and request dispatch, for the two revisions of main that the    *)
(* repository holds: src/mok.go and src/unnamed/part_000.                  *)
(*                                                                         *)
(* Strings that are paths or URLs are sequences of tokens: "/" is the path *)
(* separator and every other token is a run of characters without one.     *)
(***************************************************************************)
EXTENDS Integers, Sequences, FiniteSets, TLC

VARIABLES
    build,        \* which revision of main runs: "mok.go" or "part_000"
    argv,         \* the command line: [s |-> value given to -s, args |-> positionals]
    stdin,        \* the bytes of standard input (a document)
    jsonStr,      \* *jsonStrPtr: the -s flag variable
    flagArgs,     \* flag.Args()
    directInput,  \* directInput / directInputBytes
    seen,         \* seen / argsSet
    files,        \* files []MokFile
    resolved,     \* the outcome of every resolveFile call made so far, in order
    tempFiles,    \* base names of the files in the OS temp directory
    mux,          \* http.DefaultServeMux: pattern -> handler
    pc,           \* position of main
    exitCode,     \* process exit status (0 while running)
    stderr,       \* the last message written to standard error
    req,          \* the last request received
    resp          \* the response written to it

vars == <<build, argv, stdin, jsonStr, flagArgs, directInput, seen, files,
          resolved, tempFiles, mux, pc, exitCode, stderr, req, resp>>

----------------------------------------------------------------------------
(* Bounds *)

MaxArgs == 3          \* positional arguments on the command line
MaxRand == 2          \* distinct random components os.CreateTemp can draw

----------------------------------------------------------------------------
(* Direct-input documents.  A document is the text of standard input or   *)
(* of -s.  Numbers are hi * 2^53 + lo, so that the float64 the decoder      *)
(* produces can differ from the literal.                                   *)

NoNum == [hi |-> 0, lo |-> 0]
EmptyDoc == [kind |-> "empty", num |-> NoNum]
ObjDoc(hi, lo) == [kind |-> "object", num |-> [hi |-> hi, lo |-> lo]]
ArrayDoc == [kind |-> "array", num |-> NoNum]
MalformedDoc == [kind |-> "malformed", num |-> NoNum]

\* <<standard input, value of -s>> as the process is started
InputPool ==
    { <<EmptyDoc, EmptyDoc>>,
      <<EmptyDoc, ObjDoc(1, 1)>>,
      <<EmptyDoc, ArrayDoc>>,
      <<ObjDoc(0, 3), EmptyDoc>>,
      <<ObjDoc(0, 3), ObjDoc(1, 1)>>,
      <<MalformedDoc, EmptyDoc>> }

\* len(b) for a byte slice holding document d; for standard input also the
\* size its Stat reports (standard input is taken to be a file, read in one Read)
DocLen(d) == IF d.kind = "empty" THEN 0 ELSE 1

----------------------------------------------------------------------------
(* Paths *)

Sep == "/"

RECURSIVE LastSep(_, _)
\* strings.LastIndex(path, "/") + 1 over positions 1..n; 0 when there is none
LastSep(path, n) ==
    IF n = 0 THEN 0
    ELSE IF path[n] = Sep THEN n ELSE LastSep(path, n - 1)

RECURSIVE StripTrailingSeps(_)
StripTrailingSeps(path) ==
    IF Len(path) > 0 /\ path[Len(path)] = Sep
    THEN StripTrailingSeps(SubSeq(path, 1, Len(path) - 1))
    ELSE path

\* filepath.Base
Base(path) ==
    IF path = <<>> THEN <<".">>
    ELSE LET p == StripTrailingSeps(path)
             i == LastSep(p, Len(p))
             q == SubSeq(p, i + 1, Len(p))
         IN IF q = <<>> THEN <<Sep>> ELSE q

\* the file part of filepath.Split
SplitFile(path) == SubSeq(path, LastSep(path, Len(path)) + 1, Len(path))

----------------------------------------------------------------------------
(* The file system the process sees.  The working directory holds the file *)
(* a.json and the directory d, which holds b.json; the OS temp directory   *)
(* is /tmp and holds the files created by os.CreateTemp.                   *)

TempDir == <<Sep, "tmp">>

IsName(t) == t # Sep /\ t # "."

\* os.Stat followed by info.IsDir(): "file", "dir", or "error" when Stat fails
Stat(path, temps) ==
    IF path = <<>> THEN "error"
    ELSE LET comps == SelectSeq(path, IsName)
             needsDir == path[Len(path)] \in {Sep, "."}
             kind ==
                 IF path[1] = Sep
                 THEN CASE comps = <<>> -> "dir"
                        [] comps = <<"tmp">> -> "dir"
                        [] Len(comps) = 2 /\ comps[1] = "tmp" /\ comps[2] \in temps -> "file"
                        [] OTHER -> "error"
                 ELSE CASE comps = <<>> -> "dir"
                        [] comps = <<"a.json">> -> "file"
                        [] comps = <<"d">> -> "dir"
                        [] comps = <<"d", "b.json">> -> "file"
                        [] OTHER -> "error"
         IN IF kind = "file" /\ needsDir THEN "error" ELSE kind

----------------------------------------------------------------------------
(* Remote sources.  What the network and the temp directory do during one  *)
(* downloadJSON call is an environment record.                             *)

JSONType == "application/json"

Env(createOK, getOK, ctype, status, copyOK) ==
    [createOK |-> createOK, getOK |-> getOK, ctype |-> ctype,
     status |-> status, copyOK |-> copyOK]

EnvPool ==
    { Env(TRUE, TRUE, JSONType, 200, TRUE),
      Env(FALSE, TRUE, JSONType, 200, TRUE),
      Env(TRUE, FALSE, JSONType, 200, TRUE),
      Env(TRUE, TRUE, "text/plain", 200, TRUE),
      Env(TRUE, TRUE, "application/json; charset=utf-8", 200, TRUE),
      Env(TRUE, TRUE, JSONType, 404, TRUE),
      Env(TRUE, TRUE, "text/plain", 404, TRUE),
      Env(TRUE, TRUE, JSONType, 200, FALSE) }

RandPool == 1..MaxRand

IsRemote(arg) == arg # <<>> /\ arg[1] \in {"http://", "https://"}

\* url.Parse: fails on an invalid percent escape
URLParses(u) == \A k \in 1..Len(u) : u[k] # "%"

\* u.Host
Host(u) == IF Len(u) >= 2 /\ u[2] # Sep THEN u[2] ELSE ""

\* the name os.CreateTemp gives for pattern mok-<host>.*.json and random part r
TempName(host, r) == "mok-" \o host \o "." \o ToString(r) \o ".json"

Ok(path, temps) == [err |-> <<>>, path |-> path, temps |-> temps]
Fail(msg, temps) == [err |-> msg, path |-> <<>>, temps |-> temps]

\* downloadJSON under environment e, with r the random part CreateTemp tries first.
\* CreateTemp never returns the name of an existing file.
downloadJSON(u, e, r, temps) ==
    IF ~URLParses(u) THEN Fail(<<"parse URL">>, temps)
    ELSE IF ~e.createOK \/ \A k \in RandPool : TempName(Host(u), k) \in temps
    THEN Fail(<<"create temp file">>, temps)
    ELSE LET free == {k \in RandPool : TempName(Host(u), k) \notin temps}
             pick == IF r \in free THEN r ELSE CHOOSE k \in free : TRUE
             name == TempName(Host(u), pick)
             made == temps \cup {name}
         IN IF ~e.getOK THEN Fail(<<"download">>, made)
            ELSE IF e.ctype # JSONType
            THEN Fail(<<"unexpected content type", e.ctype>>, made)
            ELSE IF e.status # 200 THEN Fail(<<"download failed">>, made)
            ELSE IF ~e.copyOK THEN Fail(<<"save">>, made)
            ELSE Ok(TempDir \o <<Sep, name>>, made)

\* resolveFile without the info.IsDir() test
resolveFileNoDirCheck(arg, e, r, temps) ==
    IF IsRemote(arg)
    THEN LET d == downloadJSON(arg, e, r, temps)
         IN IF d.err # <<>>
            THEN Fail(<<"downloading remote file">> \o d.err, d.temps)
            ELSE d
    ELSE IF Stat(arg, temps) = "error" THEN Fail(<<"checking file">>, temps)
         ELSE Ok(arg, temps)

\* resolveFile (mok.go) and the body of the argument loop (part_000)
resolveFile(arg, e, r, temps) ==
    IF IsRemote(arg)
    THEN LET d == downloadJSON(arg, e, r, temps)
         IN IF d.err # <<>>
            THEN Fail(<<"downloading remote file">> \o d.err, d.temps)
            ELSE d
    ELSE LET st == Stat(arg, temps)
         IN IF st = "error" THEN Fail(<<"checking file">>, temps)
            ELSE IF st = "dir" THEN Fail(<<"argument is a directory">>, temps)
            ELSE Ok(arg, temps)

\* MokFile{FilePath: filePath, URLPath: "/" + filepath.Base(filePath)}
MokFile(filePath) == [FilePath |-> filePath, URLPath |-> <<Sep>> \o Base(filePath)]

----------------------------------------------------------------------------
(* JSON *)

\* strconv.ParseFloat(s, 64) of the integer literal hi * 2^53 + lo:
\* above 2^53 a float64 holds only even integers, ties go to the even mantissa
Float64(n) ==
    IF n.hi = 0 THEN n
    ELSE [hi |-> n.hi,
          lo |-> CASE n.lo % 4 = 1 -> n.lo - 1
                   [] n.lo % 4 = 3 -> n.lo + 1
                   [] OTHER -> n.lo]

\* json.Unmarshal(input, &dat) with dat a map[string]any
Unmarshal(d) ==
    CASE d.kind = "object" -> [err |-> "", dat |-> Float64(d.num)]
      [] d.kind = "array" ->
            [err |-> "json: cannot unmarshal array into Go value of type map[string]interface {}",
             dat |-> NoNum]
      [] d.kind = "malformed" ->
            [err |-> "invalid character 'x' looking for beginning of value", dat |-> NoNum]
      [] OTHER -> [err |-> "unexpected end of JSON input", dat |-> NoNum]

\* json.NewEncoder(w).Encode(dat): the text of an object holding the float64
EncodeDat(dat) == [kind |-> "object", num |-> dat]

\* json.NewEncoder(w).Encode(files): a nil slice encodes as null
EncodeFiles(fs) ==
    IF fs = <<>> THEN [kind |-> "null", items |-> <<>>]
    ELSE [kind |-> "array",
          items |-> [k \in 1..Len(fs) |->
                        [FilePath |-> fs[k].FilePath, URLPath |-> fs[k].URLPath]]]

\* tmpl.Execute(w, files): one <li><a href="{{.URLPath}}">{{.FilePath}}</a></li> per element
ExecuteTemplate(fs) ==
    [k \in 1..Len(fs) |-> [href |-> fs[k].URLPath, text |-> fs[k].FilePath]]

----------------------------------------------------------------------------
(* HTTP *)

NoDoc == [kind |-> "none", num |-> NoNum]
NoIndex == [kind |-> "none", items |-> <<>>]

Response(status, kind) ==
    [status |-> status, kind |-> kind, doc |-> NoDoc, index |-> NoIndex,
     links |-> <<>>, served |-> <<>>, msg |-> ""]

NoResp == Response(0, "none")
NoReq == [path |-> <<>>, accept |-> ""]

RootHandler == [kind |-> "root", FilePath |-> <<>>]
FileHandler(filePath) == [kind |-> "file", FilePath |-> filePath]

EmptyMux == [handlers |-> <<>>, panic |-> <<>>]

\* a registry in which a second registration replaces the first
HandleFuncOverwrite(m, pattern, h) ==
    [m EXCEPT !.handlers = (pattern :> h) @@ m.handlers]

\* mux.HandleFunc(pattern, h): registering a pattern twice panics
HandleFunc(m, pattern, h) ==
    IF m.panic # <<>> THEN m
    ELSE IF pattern \in DOMAIN m.handlers
    THEN [m EXCEPT !.panic = <<"http: multiple registrations for">> \o pattern]
    ELSE [m EXCEPT !.handlers = (pattern :> h) @@ m.handlers]

\* a closure that shares one loop variable with every iteration: when the
\* handlers run, f is the last element of files
LoopClosureShared(fs, k) == FileHandler(fs[Len(fs)].FilePath)

\* the handler the closure of iteration k of the registration loop runs:
\* each iteration of a Go range loop has its own f (Go 1.22 loop semantics)
LoopClosure(fs, k) == FileHandler(fs[k].FilePath)

RECURSIVE RegisterFiles(_, _, _)
\* for _, f := range files { http.HandleFunc("/"+fileName, ...) }, from iteration k
RegisterFiles(m, fs, k) ==
    IF k > Len(fs) THEN m
    ELSE RegisterFiles(
             HandleFunc(m, <<Sep>> \o SplitFile(fs[k].FilePath), LoopClosure(fs, k)),
             fs, k + 1)

\* setupHandlers
setupHandlers(fs) == RegisterFiles(HandleFunc(EmptyMux, <<Sep>>, RootHandler), fs, 1)

\* ServeMux dispatch: the exact pattern if registered, else the "/" subtree
Dispatch(m, path) ==
    IF path \in DOMAIN m.handlers THEN m.handlers[path] ELSE m.handlers[<<Sep>>]

\* serveDirectInput (mok.go)
serveDirectInput(input) ==
    LET u == Unmarshal(input)
    IN IF u.err # ""
       THEN [Response(500, "error") EXCEPT !.msg = "Invalid JSON: " \o u.err]
       ELSE [Response(200, "doc") EXCEPT !.doc = EncodeDat(u.dat)]

\* the Accept header is matched by prefix instead of by equality
serveIndexPrefix(accept, fs) ==
    IF accept \in {JSONType, "application/json; charset=utf-8"}
    THEN [Response(200, "json") EXCEPT !.index = EncodeFiles(fs)]
    ELSE [Response(200, "html") EXCEPT !.links = ExecuteTemplate(fs)]

\* the index branch of the "/" handler
serveIndex(accept, fs) ==
    IF accept = JSONType
    THEN [Response(200, "json") EXCEPT !.index = EncodeFiles(fs)]
    ELSE [Response(200, "html") EXCEPT !.links = ExecuteTemplate(fs)]

\* http.ServeFile(w, r, name)
ServeFile(name, temps) ==
    IF Stat(name, temps) = "file"
    THEN [Response(200, "file") EXCEPT !.served = name]
    ELSE Response(404, "error")

----------------------------------------------------------------------------
(* Inputs *)

Builds == {"mok.go", "part_000"}

ArgPool ==
    { <<"a.json">>,
      <<".", Sep, "a.json">>,
      <<"d", Sep, "b.json">>,
      <<"d", Sep>>,
      <<"http://", "h", Sep, "x">>,
      <<"https://", "%">>,
      <<Sep, "tmp", Sep, "mok-h.1.json">> }

RECURSIVE SeqsUpTo(_, _)
\* all sequences over S of length at most n
SeqsUpTo(S, n) ==
    IF n = 0 THEN {<<>>}
    ELSE LET shorter == SeqsUpTo(S, n - 1)
         IN shorter \cup {Append(q, x) : q \in {t \in shorter : Len(t) = n - 1}, x \in S}

\* values of the Accept request header; "" is an absent header
AcceptPool == {"", JSONType, "application/json; charset=utf-8"}

PathPool ==
    { <<Sep>>, <<Sep, "a.json">>, <<Sep, "b.json">> }
    \cup {<<Sep, TempName("h", k)>> : k \in RandPool}

\* the environments and random parts that can make a difference to resolving arg
EnvsFor(arg) == IF IsRemote(arg) /\ URLParses(arg) THEN EnvPool ELSE {Env(TRUE, TRUE, JSONType, 200, TRUE)}
RandsFor(arg) == IF IsRemote(arg) /\ URLParses(arg) THEN RandPool ELSE {1}

----------------------------------------------------------------------------
(* The process *)

Init ==
    /\ build \in Builds
    /\ \E in \in InputPool, args \in SeqsUpTo(ArgPool, MaxArgs) :
         /\ stdin = in[1]
         /\ argv = [s |-> in[2], args |-> args]
    /\ jsonStr = EmptyDoc          \* flag.String("s", "", ...)
    /\ flagArgs = <<>>
    /\ directInput = EmptyDoc
    /\ seen = {}
    /\ files = <<>>
    /\ resolved = <<>>
    /\ tempFiles = {}
    /\ mux = EmptyMux
    /\ pc = "start"
    /\ exitCode = 0
    /\ stderr = <<>>
    /\ req = NoReq
    /\ resp = NoResp

\* the message is printed but the process goes on
errNoExit(msg) ==
    /\ stderr' = <<"error:">> \o msg
    /\ exitCode' = exitCode
    /\ pc' = pc

\* errAndExit(msg)
errAndExit(msg) ==
    /\ stderr' = <<"error:">> \o msg
    /\ exitCode' = 1
    /\ pc' = "exited"

\* flag.Parse(): mok.go parses first, part_000 after reading the direct input
ParseFlags ==
    /\ pc = (IF build = "mok.go" THEN "start" ELSE "mid")
    /\ jsonStr' = argv.s
    /\ flagArgs' = argv.args
    /\ pc' = (IF build = "mok.go" THEN "mid" ELSE "check")
    /\ UNCHANGED <<build, argv, stdin, directInput, seen, files, resolved,
                   tempFiles, mux, exitCode, stderr, req, resp>>

\* the value getDirectInput returns when neither Stat nor Read fails
directInputOf(in, s) ==
    IF DocLen(in) > 0 THEN in
    ELSE IF s # EmptyDoc THEN s
    ELSE EmptyDoc

\* getDirectInput (mok.go) and the direct-input block of main (part_000);
\* fault is what the operating system does to the Stat and Read of standard input
GetDirectInput ==
    /\ pc = (IF build = "mok.go" THEN "mid" ELSE "start")
    /\ \E fault \in {"none", "stat", "read"} :
         IF fault = "stat" \/ (fault = "read" /\ DocLen(stdin) > 0)
         THEN /\ errAndExit(<<"cannot read direct input">>)
              /\ UNCHANGED directInput
         ELSE /\ directInput' = directInputOf(stdin, jsonStr)
              /\ pc' = (IF build = "mok.go" THEN "check" ELSE "mid")
              /\ UNCHANGED <<exitCode, stderr>>
    /\ UNCHANGED <<build, argv, stdin, jsonStr, flagArgs, seen, files, resolved,
                   tempFiles, mux, req, resp>>

\* main without the "no file specified" test
CheckNoFileSkipped ==
    /\ pc = "check"
    /\ pc' = "resolve"
    /\ UNCHANGED <<build, argv, stdin, jsonStr, flagArgs, directInput, seen, files,
                   resolved, tempFiles, mux, exitCode, stderr, req, resp>>

\* if flag.NArg() < 1 && len(directInput) == 0 { errAndExit("no file specified") }
CheckNoFile ==
    /\ pc = "check"
    /\ IF Len(flagArgs) < 1 /\ DocLen(directInput) = 0
       THEN errAndExit(<<"no file specified">>)
       ELSE /\ pc' = "resolve"
            /\ UNCHANGED <<exitCode, stderr>>
    /\ UNCHANGED <<build, argv, stdin, jsonStr, flagArgs, directInput, seen, files,
                   resolved, tempFiles, mux, req, resp>>

\* the seen set is never consulted
IsNewAlways(filePath, seenSet) == TRUE

\* whether the loop body appends a route for filePath
IsNew(filePath, seenSet) == filePath \notin seenSet

\* one iteration of the loop of processFileArgs
ResolveArg ==
    /\ pc = "resolve"
    /\ Len(resolved) < Len(flagArgs)
    /\ \E e \in EnvsFor(flagArgs[Len(resolved) + 1]),
          r \in RandsFor(flagArgs[Len(resolved) + 1]) :
         LET arg == flagArgs[Len(resolved) + 1]
             res == resolveFile(arg, e, r, tempFiles)
         IN /\ resolved' = Append(resolved, [arg |-> arg, err |-> res.err, path |-> res.path])
            /\ tempFiles' = res.temps
            /\ IF res.err # <<>>
               THEN /\ errAndExit(res.err)
                    /\ UNCHANGED <<seen, files>>
               ELSE /\ IF IsNew(res.path, seen)
                       THEN /\ seen' = seen \cup {res.path}
                            /\ files' = Append(files, MokFile(res.path))
                       ELSE UNCHANGED <<seen, files>>
                    /\ UNCHANGED <<pc, exitCode, stderr>>
    /\ UNCHANGED <<build, argv, stdin, jsonStr, flagArgs, directInput, mux, req, resp>>

\* setupHandlers(directInput, files) and the summary; a panic ends the process
SetupHandlers ==
    /\ pc = "resolve"
    /\ Len(resolved) = Len(flagArgs)
    /\ mux' = setupHandlers(files)
    /\ IF mux'.panic # <<>>
       THEN /\ stderr' = <<"panic:">> \o mux'.panic
            /\ exitCode' = 2
            /\ pc' = "exited"
       ELSE /\ pc' = "listen"
            /\ UNCHANGED <<exitCode, stderr>>
    /\ UNCHANGED <<build, argv, stdin, jsonStr, flagArgs, directInput, seen, files,
                   resolved, tempFiles, req, resp>>

\* http.ListenAndServe: binds the port or fails
Listen ==
    /\ pc = "listen"
    /\ \E bound \in BOOLEAN :
         IF bound
         THEN /\ pc' = "listening"
              /\ UNCHANGED <<exitCode, stderr>>
         ELSE errAndExit(<<"http: listen failed">>)
    /\ UNCHANGED <<build, argv, stdin, jsonStr, flagArgs, directInput, seen, files,
                   resolved, tempFiles, mux, req, resp>>

\* the "/" handler with the Accept test ahead of the direct-input test
rootMokAcceptFirst(accept, input, fs) ==
    IF accept = JSONType
    THEN [exit |-> <<>>, resp |-> serveIndex(accept, fs)]
    ELSE IF DocLen(input) > 0
    THEN [exit |-> <<>>, resp |-> serveDirectInput(input)]
    ELSE [exit |-> <<>>, resp |-> serveIndex(accept, fs)]

\* the "/" handler of mok.go
rootMok(accept, input, fs) ==
    IF DocLen(input) > 0
    THEN [exit |-> <<>>, resp |-> serveDirectInput(input)]
    ELSE [exit |-> <<>>, resp |-> serveIndex(accept, fs)]

\* the "/" handler of part_000: a failed Unmarshal calls errAndExit
root000(accept, input, fs) ==
    IF DocLen(input) > 0
    THEN LET u == Unmarshal(input)
         IN IF u.err # ""
            THEN [exit |-> <<"unmarshaling JSON: " \o u.err>>, resp |-> NoResp]
            ELSE [exit |-> <<>>, resp |-> [Response(200, "doc") EXCEPT !.doc = EncodeDat(u.dat)]]
    ELSE [exit |-> <<>>, resp |-> serveIndex(accept, fs)]

\* a request routed to the "/" handler
ServeRoot ==
    /\ pc = "listening"
    /\ \E path \in PathPool, accept \in AcceptPool :
         /\ Dispatch(mux, path).kind = "root"
         /\ LET out == IF build = "mok.go"
                       THEN rootMok(accept, directInput, files)
                       ELSE root000(accept, directInput, files)
            IN /\ req' = [path |-> path, accept |-> accept]
               /\ resp' = out.resp
               /\ IF out.exit # <<>>
                  THEN errAndExit(out.exit)
                  ELSE UNCHANGED <<pc, exitCode, stderr>>
    /\ UNCHANGED <<build, argv, stdin, jsonStr, flagArgs, directInput, seen, files,
                   resolved, tempFiles, mux>>

\* a request routed to the handler of a file
ServeRoute ==
    /\ pc = "listening"
    /\ \E path \in PathPool, accept \in {""} :
         /\ Dispatch(mux, path).kind = "file"
         /\ req' = [path |-> path, accept |-> accept]
         /\ resp' = ServeFile(Dispatch(mux, path).FilePath, tempFiles)
    /\ UNCHANGED <<build, argv, stdin, jsonStr, flagArgs, directInput, seen, files,
                   resolved, tempFiles, mux, pc, exitCode, stderr>>

Next ==
    \/ ParseFlags
    \/ GetDirectInput
    \/ CheckNoFile
    \/ ResolveArg
    \/ SetupHandlers
    \/ Listen
    \/ ServeRoot
    \/ ServeRoute

Spec == Init /\ [][Next]_vars

----------------------------------------------------------------------------
(* Properties *)

Root == <<Sep>>
Answered == req # NoReq /\ resp # NoResp
HasDirectInput == DocLen(directInput) > 0
AllResolved ==
    /\ Len(resolved) = Len(flagArgs)
    /\ \A k \in 1..Len(resolved) : resolved[k].err = <<>>
Started == pc \in {"listen", "listening"}

\* two routes of fs share a urlPath
Collision(fs) ==
    \E j, k \in 1..Len(fs) : j < k /\ fs[j].URLPath = fs[k].URLPath

\* the paths resolved so far, and those at their first occurrence, in order
ResolvedPaths == [k \in 1..Len(resolved) |-> resolved[k].path]
IsFirst(ps, k) == \A j \in 1..(k - 1) : ps[j] # ps[k]
RECURSIVE FirstOccurrences(_, _)
FirstOccurrences(ps, k) ==
    IF k > Len(ps) THEN <<>>
    ELSE (IF IsFirst(ps, k) THEN <<ps[k]>> ELSE <<>>) \o FirstOccurrences(ps, k + 1)
FilePaths(fs) == [k \in 1..Len(fs) |-> fs[k].FilePath]

\* C1: once the server listens, the handler registered at each route's urlPath
\* serves that route's own sourcePath, at every position of the list, with or
\* without direct input; a request to a route's urlPath is answered from it.
C1_HandlerServesOwnFile ==
    pc = "listening" =>
        \A k \in 1..Len(files) :
            /\ Dispatch(mux, files[k].URLPath) = FileHandler(files[k].FilePath)
            /\ (Answered /\ req.path = files[k].URLPath) =>
                   (resp.kind = "file" /\ resp.served = files[k].FilePath)

C1_Witness ==
    /\ pc = "listening"
    /\ HasDirectInput
    /\ Len(files) = 3
    /\ Answered
    /\ req.path = files[1].URLPath
    /\ resp.served = files[1].FilePath

\* C2: when every argument resolved, the route list holds each distinct resolved
\* sourcePath exactly once, in the order of first occurrence.
C2_DedupFirstSeenOrder ==
    (AllResolved /\ pc \in {"resolve", "listen", "listening"}) =>
        FilePaths(files) = FirstOccurrences(ResolvedPaths, 1)

C2_Witness ==
    /\ AllResolved
    /\ Len(resolved) = 3
    /\ resolved[1].path = resolved[3].path
    /\ resolved[1].path # resolved[2].path
    /\ Len(files) = 2
    /\ pc = "listen"

\* C3: without direct input, "/" answers Accept: application/json (exactly) with
\* 200 and the JSON array of the routes in order, and any other Accept with the
\* HTML index holding one link per route in order, href urlPath, text sourcePath.
C3_IndexNegotiation ==
    (Answered /\ req.path = Root /\ ~HasDirectInput) =>
        /\ resp.status = 200
        /\ IF req.accept = JSONType
           THEN /\ resp.kind = "json"
                /\ resp.index.kind = "array"
                /\ Len(resp.index.items) = Len(files)
                /\ \A k \in 1..Len(files) :
                       /\ resp.index.items[k].FilePath = files[k].FilePath
                       /\ resp.index.items[k].URLPath = files[k].URLPath
           ELSE /\ resp.kind = "html"
                /\ Len(resp.links) = Len(files)
                /\ \A k \in 1..Len(files) :
                       /\ resp.links[k].href = files[k].URLPath
                       /\ resp.links[k].text = files[k].FilePath

C3_Witness ==
    /\ Answered
    /\ req.path = Root
    /\ ~HasDirectInput
    /\ req.accept = JSONType
    /\ Len(files) = 2
    /\ resp.index.kind = "array"

C5_ParseErrorIsPerRequest ==
    (req # NoReq /\ req.path = Root /\ directInput.kind = "malformed") =>
        /\ pc = "listening"
        /\ exitCode = 0
        /\ resp.status \notin {0, 200}
        /\ resp.msg = "Invalid JSON: " \o Unmarshal(directInput).err

\* C6: the direct input is standard input when that is non-empty, else the -s
\* value given on the command line, and absent only when both are empty.
C6_DirectInputPrecedence ==
    pc \in {"check", "resolve", "listen", "listening"} =>
        directInput = (IF DocLen(stdin) > 0 THEN stdin ELSE argv.s)

\* C7: startup is all-or-nothing.  A failed resolution is the last one made: the
\* process has exited nonzero with "error:" and that failure's message, every
\* earlier argument had resolved, and no handler is registered.  With neither
\* positional arguments nor direct input the process never gets past the check.
C7_StartupAllOrNothing ==
    /\ \A k \in 1..Len(resolved) :
           resolved[k].err # <<>> =>
               /\ k = Len(resolved)
               /\ \A j \in 1..(k - 1) : resolved[j].err = <<>>
               /\ pc = "exited"
               /\ exitCode # 0
               /\ stderr = <<"error:">> \o resolved[k].err
               /\ mux = EmptyMux
               /\ req = NoReq
    /\ (Len(argv.args) = 0 /\ ~HasDirectInput) =>
           /\ pc \in {"start", "mid", "check", "exited"}
           /\ mux = EmptyMux
           /\ pc = "exited" => (exitCode # 0 /\ stderr[1] = "error:")
    /\ Started => AllResolved

C7_Witness ==
    /\ pc = "exited"
    /\ Len(argv.args) = 3
    /\ Len(resolved) = 2
    /\ resolved[2].err = <<"downloading remote file", "unexpected content type", "text/plain">>
    /\ Len(files) = 1

\* C8 as stated: with two routes sharing a urlPath, startup completes and the
\* later registration replaces the earlier one.
C8_LaterRegistrationWins ==
    (Collision(files) /\ AllResolved /\ pc # "resolve") =>
        /\ pc \in {"listen", "listening"}
        /\ \A j, k \in 1..Len(files) :
               (j < k /\ files[j].URLPath = files[k].URLPath) =>
                   Dispatch(mux, files[k].URLPath).FilePath # files[j].FilePath

\* C8 amended: two distinct source paths sharing a base filename are both kept
\* in the route list, but registering the second one panics (net/http refuses a
\* duplicate pattern): the process ends with a panic naming the shared urlPath,
\* never listens and answers no request.
C8_DuplicatePatternPanics ==
    Collision(files) =>
        /\ pc \in {"resolve", "exited"}
        /\ resp = NoResp /\ req = NoReq
        /\ (pc = "exited" /\ AllResolved) =>
               /\ exitCode = 2
               /\ \E k \in 1..Len(files) :
                      stderr = <<"panic:", "http: multiple registrations for">>
                                   \o files[k].URLPath

C8_Witness ==
    /\ Collision(files)
    /\ \E j, k \in 1..Len(files) :
           /\ files[j].FilePath = <<"a.json">>
           /\ files[k].FilePath = <<".", Sep, "a.json">>
    /\ pc = "exited"
    /\ exitCode = 2

\* C9: for every route, the pattern setupHandlers registers ("/" + file part of
\* filepath.Split) equals the route's URLPath ("/" + filepath.Base), so every
\* link of the index is routed to a file handler, never to the root handler.
C9_PatternEqualsURLPath ==
    \A k \in 1..Len(files) :
        /\ <<Sep>> \o SplitFile(files[k].FilePath) = files[k].URLPath
        /\ files[k].URLPath # Root
        /\ Started => Dispatch(mux, files[k].URLPath).kind = "file"

C9_Witness ==
    /\ pc = "listening"
    /\ Len(files) = 2
    /\ files[1].FilePath = <<"d", Sep, "b.json">>
    /\ files[2].FilePath = TempDir \o <<Sep, TempName("h", 2)>>
    /\ resp.kind = "html"

\* C10: while listening without direct input the route list is non-empty, so
\* the index is never built from an empty list (the JSON index is never null);
\* an empty route list while listening implies direct input, and then "/"
\* never serves the index.
C10_IndexNeverEmpty ==
    /\ (Started /\ ~HasDirectInput) => Len(files) > 0
    /\ resp.kind = "json" => (resp.index.kind = "array" /\ Len(resp.index.items) > 0)
    /\ resp.kind = "html" => Len(resp.links) > 0
    /\ (Started /\ files = <<>>) => (HasDirectInput /\ resp.kind \notin {"json", "html"})

C10_Witness ==
    /\ pc = "listening"
    /\ files = <<>>
    /\ HasDirectInput
    /\ Answered
    /\ resp.kind = "doc"

====
